---- MODULE Spec2Model ----
(***************************************************************************)
(* Consistency engine of the "Consistent Attachments and Links" plugin:    *)
(* the rename cascade (RenameDeleteHandler: handleRename, fillRenameMap,   *)
(* processRename) and the attachment collector (FilesHandler.              *)
(* moveAttachment, collectAttachmentsForCachedNote) over a small vault.    *)
(***************************************************************************)
EXTENDS Naturals, Sequences, FiniteSets, TLC

VARIABLES
  files,          \* the vault's files: path -> [bytes, links, id]
  folders,        \* the vault's folders (each a sequence of folder names)
  settings,       \* the plugin settings the engine reads
  fhPrune,        \* FilesHandler.shouldDeleteEmptyFolders of the live handler
  renameMap,      \* the module-level renameMap: a sequence of <<old, new>>
  pc,             \* handleRename: "idle" or "process" (inside the for loop)
  cursor,         \* keys of renameMap the for loop has still to visit
  updateAllLinks, \* app.fileManager.updateAllLinks: "host" or "noop"
  faults,         \* physical moves the environment has made fail so far
  renames,        \* user renames so far
  cascade,        \* history: what the last cascade was given and did
  coll,           \* collectAttachments: its position and partial result
  lastMove,       \* history: the last moveAttachment call and its outcome
  broken0,        \* history: the link occurrences that were broken at the start
  lastDelete,     \* history: the last delete notification and the tree before it
  saves,          \* calls of saveSettings so far
  bulk,           \* the running bulk command: its stages, its loop, its history
  fmt,            \* per note, the link conversions its text still needs
  deletedNoteCache  \* plugin.deletedNoteCache: the paths it has an entry for

vaultVars == <<files, folders>>
cfgVars == <<settings, fhPrune>>
renameVars == <<renameMap, pc, cursor, updateAllLinks, faults, renames, cascade>>
collectVars == <<coll, lastMove, broken0>>
auxVars == <<lastDelete, saves, bulk, fmt, deletedNoteCache>>
vars == <<files, folders, settings, fhPrune, renameMap, pc, cursor, updateAllLinks,
          faults, renames, cascade, coll, lastMove, broken0, lastDelete, saves,
          bulk, fmt, deletedNoteCache>>

-----------------------------------------------------------------------------
(* Bounds of the model *)

MaxRenames == 2
MaxFaults == 1
MaxCollects == 2
MaxDeletes == 2
MaxSaves == 1
MaxWrites == 1
MaxCopies == 3

-----------------------------------------------------------------------------
(* Paths.  A file path is a record: the folder it is in (a sequence of     *)
(* names), the stem of its basename, the " 1", " 2" ... suffixes that      *)
(* getAvailablePath appended to the stem, and the extension.               *)

P(d, s, u, e) == [dir |-> d, stem |-> s, suf |-> u, ext |-> e]

Root == <<>>

isNote(p) == p.ext \in {"md", "canvas"}

dirname(p) == p.dir

IsPrefix(a, b) == Len(a) <= Len(b) /\ SubSeq(b, 1, Len(a)) = a

\* path.relative(from, to) for a folder `from` that is an ancestor of `to`
relative(from, to) == SubSeq(to, Len(from) + 1, Len(to))

Range(s) == {s[i] : i \in 1..Len(s)}

Without(f, k) == [q \in DOMAIN f \ {k} |-> f[q]]

With(f, k, v) == [q \in DOMAIN f \cup {k} |-> IF q = k THEN v ELSE f[q]]

-----------------------------------------------------------------------------
(* The host's file tree primitives *)

Exists(fs, p) == p \in DOMAIN fs

RECURSIVE NextFree(_, _, _)
NextFree(fs, p, i) ==
  LET q == [p EXCEPT !.suf = p.suf \o <<i>>]
  IN  IF ~Exists(fs, q) THEN q ELSE NextFree(fs, p, i + 1)

\* Vault.getAvailablePath(base, ext): the path itself when it is free, else
\* the first free "base i.ext", i = 1, 2, ...
getAvailablePath(fs, p) == IF ~Exists(fs, p) THEN p ELSE NextFree(fs, p, 1)

Ancestors(d) == {SubSeq(d, 1, k) : k \in 0..Len(d)}

createFolderSafe(fo, d) == fo \cup Ancestors(d)

IsEmptyFolder(fs, fo, d) ==
  /\ \A p \in DOMAIN fs : p.dir # d
  /\ \A g \in fo : ~(Len(g) = Len(d) + 1 /\ IsPrefix(d, g))

Parent(d) == SubSeq(d, 1, Len(d) - 1)

RECURSIVE removeEmptyFolderHierarchy(_, _, _)
removeEmptyFolderHierarchy(fs, fo, d) ==
  IF d = Root \/ d \notin fo \/ ~IsEmptyFolder(fs, fo, d)
  THEN fo
  ELSE removeEmptyFolderHierarchy(fs, fo \ {d}, Parent(d))

vaultRename(fs, old, new) == With(Without(fs, old), new, fs[old])

vaultCopy(fs, old, new) == With(fs, new, fs[old])

vaultDelete(fs, p) == Without(fs, p)

-----------------------------------------------------------------------------
(* The attachment-folder policy: a subfolder named after the note *)

getAttachmentFolderPath(notePath) == notePath.dir \o <<notePath.stem>>

-----------------------------------------------------------------------------
(* The rename map: a JavaScript Map kept as a sequence of <<old, new>> in  *)
(* insertion order.                                                        *)

MapKeys(rm) == [i \in 1..Len(rm) |-> rm[i][1]]

MapHas(rm, k) == \E i \in 1..Len(rm) : rm[i][1] = k

MapGet(rm, k) == rm[CHOOSE i \in 1..Len(rm) : rm[i][1] = k][2]

MapSet(rm, k, v) ==
  IF MapHas(rm, k)
  THEN [i \in 1..Len(rm) |-> IF rm[i][1] = k THEN <<k, v>> ELSE rm[i]]
  ELSE Append(rm, <<k, v>>)

MapDelete(rm, k) == SelectSeq(rm, LAMBDA e : e[1] # k)

-----------------------------------------------------------------------------
(* The link index of the host.  A link occurrence is [target |-> path]:    *)
(* the file path its text denotes.                                         *)

Link(t) == [target |-> t]

Notes(fs) == {n \in DOMAIN fs : isNote(n)}

\* An occurrence belongs to the backlinks of the file now at f when its text
\* denotes f, or denotes a path in prev: the path f had before the host moved
\* it (the index follows the file across the move).
PointsAt(l, f, prev) == l.target = f \/ l.target \in prev

getBacklinksForFile(fs, f, prev) ==
  {n \in Notes(fs) : \E i \in 1..Len(fs[n].links) : PointsAt(fs[n].links[i], f, prev)}

\* The key under which the index lists a source note: its path, or, while the
\* index has not caught up with the rename of seedNew, its path before it.
BacklinkKey(n, stale, seedOld, seedNew) == IF stale /\ n = seedNew THEN seedOld ELSE n

\* Link.updateLink: the text for an occurrence that points at file f
updateLink(rm, f) == Link(IF MapHas(rm, f) THEN MapGet(rm, f) ELSE f)

\* Vault.applyFileChanges with the changes processRename builds for one note
RewriteBacklinks(fs, note, f, prev, rm) ==
  [fs EXCEPT ![note].links =
     [i \in 1..Len(@) |-> IF PointsAt(@[i], f, prev) THEN updateLink(rm, f) ELSE @[i]]]

\* Link.updateLinksInFile: the note's own links, each redirected by the map
updateLinksInFile(fs, note, rm) ==
  [fs EXCEPT ![note].links =
     [i \in 1..Len(@) |-> IF MapHas(rm, @[i].target)
                          THEN Link(MapGet(rm, @[i].target)) ELSE @[i]]]

-----------------------------------------------------------------------------
(* RenameDeleteHandler *)

\* Every file below folder d (Vault.recurseChildren keeps the TFile's)
Children(fs, d) == {p \in DOMAIN fs : IsPrefix(d, p.dir)}

\* The orders in which the host may enumerate a set of files
Orders(S) == {s \in [1..Cardinality(S) -> S] : \A i, j \in DOMAIN s : s[i] = s[j] => i = j}

RECURSIVE AddChildren(_, _, _, _, _)
AddChildren(fs, rm, children, oldAF, newAF) ==
  IF children = <<>> THEN rm
  ELSE LET child == Head(children)
           relativePath == relative(oldAF, child.dir)
           newDir == newAF \o relativePath
           newChildPath == [child EXCEPT !.dir = newDir]
       IN  IF isNote(child) \/ child = newChildPath
           THEN AddChildren(fs, rm, Tail(children), oldAF, newAF)
           ELSE AddChildren(fs, MapSet(rm, child, getAvailablePath(fs, newChildPath)),
                            Tail(children), oldAF, newAF)

\* fillRenameMap without the test of line 75
fillRenameMapForAnyFile(fs, fo, rm, filePath, oldPath, children) ==
  LET seeded == MapSet(rm, oldPath, filePath)
      oldAttachmentFolderPath == getAttachmentFolderPath(oldPath)
      newAttachmentFolderPath == getAttachmentFolderPath(filePath)
  IN  IF oldAttachmentFolderPath \notin fo THEN seeded
      ELSE IF oldAttachmentFolderPath = newAttachmentFolderPath THEN seeded
      ELSE AddChildren(fs, seeded, children, oldAttachmentFolderPath, newAttachmentFolderPath)

fillRenameMap(fs, fo, rm, filePath, oldPath, children) ==
  LET seeded == MapSet(rm, oldPath, filePath)
      oldAttachmentFolderPath == getAttachmentFolderPath(oldPath)
      newAttachmentFolderPath == getAttachmentFolderPath(filePath)
  IN  IF ~isNote(filePath) THEN seeded
      ELSE IF oldAttachmentFolderPath \notin fo THEN seeded
      ELSE IF oldAttachmentFolderPath = newAttachmentFolderPath THEN seeded
      ELSE AddChildren(fs, seeded, children, oldAttachmentFolderPath, newAttachmentFolderPath)

\* handleRename, line 33: a cascade is already under way
CascadeActiveNever(rm) == FALSE

CascadeActive(rm) == Len(rm) > 0

\* handleRename up to the first await inside fillRenameMap, and on through
\* fillRenameMap: what a rename notification does to the rename map
handleRenameEntry(rm, fs, fo, filePath, oldPath, children) ==
  IF CascadeActive(rm) THEN rm
  ELSE fillRenameMap(fs, fo, rm, filePath, oldPath, children)

\* The source note a backlink key stands for: the file at the key, else the
\* file at the path the rename map gives for the key, else none (<<>>)
ParentNote(fs, rm, key) ==
  IF Exists(fs, key) THEN <<key>>
  ELSE IF MapHas(rm, key) /\ Exists(fs, MapGet(rm, key)) THEN <<MapGet(rm, key)>>
  ELSE <<>>

RECURSIVE RewriteParents(_, _, _, _, _)
RewriteParents(fs, parents, f, prev, rm) ==
  IF parents = {} THEN fs
  ELSE LET n == CHOOSE x \in parents : TRUE
       IN  RewriteParents(RewriteBacklinks(fs, n, f, prev, rm), parents \ {n}, f, prev, rm)

\* The notes processRename rewrites (lines 116-137): the holders of a backlink
\* to the file found at oldPath, else at newPath
BacklinkHoldersOfNewFile(fs, rm, oldPath, newPath, stale, seedOld, seedNew) ==
  IF Exists(fs, oldPath) \/ ~Exists(fs, newPath) THEN {}
  ELSE LET keys == {BacklinkKey(n, stale, seedOld, seedNew) :
                      n \in getBacklinksForFile(fs, newPath, {oldPath})}
       IN  UNION {Range(ParentNote(fs, rm, k)) : k \in keys}

BacklinkHolders(fs, rm, oldPath, newPath, stale, seedOld, seedNew) ==
  LET oldFile == Exists(fs, oldPath)
      file == IF oldFile THEN oldPath ELSE newPath
      prev == IF oldFile THEN {} ELSE {oldPath}
      keys == {BacklinkKey(n, stale, seedOld, seedNew) : n \in getBacklinksForFile(fs, file, prev)}
  IN  UNION {Range(ParentNote(fs, rm, k)) : k \in keys}

\* processRename(oldPath, newPath).  fail: the environment makes the physical
\* move fail.  The result says whether the call threw and what it moved.  The
\* move fires the host's rename notification, which handleRename receives
\* before the entry is deleted (line 178).
processRename(fs, fo, rm, oldPath, newPath, stale, seedOld, seedNew, fail) ==
  LET oldFile == Exists(fs, oldPath)
      newFile == Exists(fs, newPath)
      file == IF oldFile THEN oldPath ELSE newPath
      prev == IF oldFile THEN {} ELSE {oldPath}
      parents == BacklinkHolders(fs, rm, oldPath, newPath, stale, seedOld, seedNew)
      fs1 == RewriteParents(fs, parents, file, prev, rm)
      fs2 == IF file.ext = "md" THEN updateLinksInFile(fs1, file, rm) ELSE fs1
      fo2 == createFolderSafe(fo, dirname(newPath))
  IN  IF ~oldFile /\ ~newFile
      THEN [files |-> fs, folders |-> fo, renameMap |-> rm, threw |-> FALSE, moved |-> {}]
      ELSE IF ~oldFile
      THEN [files |-> fs2, folders |-> fo, renameMap |-> rm, threw |-> FALSE, moved |-> {}]
      ELSE IF fail \/ Exists(fs2, newPath)
      THEN [files |-> fs2, folders |-> fo2, renameMap |-> rm, threw |-> TRUE, moved |-> {}]
      ELSE LET fs3 == vaultRename(fs2, oldPath, newPath)
           IN  [files |-> fs3,
                folders |-> removeEmptyFolderHierarchy(fs3, fo2, dirname(oldPath)),
                renameMap |-> MapDelete(handleRenameEntry(rm, fs3, fo2, newPath, oldPath, <<>>), oldPath),
                threw |-> FALSE,
                moved |-> {<<oldPath, newPath>>}]

-----------------------------------------------------------------------------
(* State shared by the specifications *)

File(b, l, i) == [bytes |-> b, links |-> l, id |-> i]

Links(paths) == [i \in 1..Len(paths) |-> Link(paths[i])]

FoldersOf(fs) == UNION {Ancestors(p.dir) : p \in DOMAIN fs}

NoCascade ==
  [status |-> "none", old |-> <<>>, new |-> <<>>, att |-> <<>>, stale |-> FALSE,
   faulted |-> FALSE, moved |-> {}, dropped |-> FALSE, interfered |-> FALSE,
   skipped |-> <<>>, lost |-> {}]

NoCollect ==
  [pc |-> "idle", note |-> <<>>, links |-> <<>>, moved |-> <<>>, renamed |-> <<>>, count |-> 0,
   prev |-> <<>>, changed |-> {}, seen |-> {}]

NoMove ==
  [called |-> FALSE, note |-> <<>>, path |-> <<>>, target |-> <<>>,
   shared |-> FALSE, collision |-> FALSE, del |-> FALSE]

DefaultSettings ==
  [deleteEmptyFolders |-> TRUE, deleteExistFilesWhenMoveNote |-> FALSE, customized |-> FALSE,
   attachmentFolderPath |-> ".", ignoreFolders |-> {}, ignoreFilesRegex |-> {},
   deleteAttachmentsWithNote |-> TRUE, autoCollectAttachments |-> FALSE]

NoDelete == [done |-> FALSE, path |-> <<>>, files |-> <<>>, folders |-> {}, count |-> 0]

\* No delete notification has been handled
NoBulk ==
  [cmd |-> "none", running |-> FALSE, stages |-> <<>>, queue |-> <<>>, aborted |-> FALSE,
   started |-> <<>>, done |-> {}, todo |-> <<>>, observed |-> FALSE, error |-> FALSE,
   pruned |-> FALSE, writes |-> 0, files0 |-> <<>>, folders0 |-> {}, fmt0 |-> <<>>,
   reported |-> FALSE, failed |-> <<>>]

AuxIdle == lastDelete = NoDelete /\ saves = 0 /\ bulk = NoBulk /\ fmt = <<>> /\ deletedNoteCache = {}

-----------------------------------------------------------------------------
(* Spec: renames in a vault with a note A/n.md, its attachment folder A/n, *)
(* a second note A/m.md and a folder B that may already hold B/n/img.png   *)

NoteN == P(<<"A">>, "n", <<>>, "md")
NoteM == P(<<"A">>, "m", <<>>, "md")
A1 == P(<<"A", "n">>, "img", <<>>, "png")
A2 == P(<<"A", "n">>, "img", <<1>>, "png")
A3 == P(<<"A", "n", "sub">>, "img", <<>>, "png")
B1 == P(<<"B", "n">>, "img", <<>>, "png")
AttOrder == <<A1, A2, A3, B1>>

BytesOf(p) == IF p = A1 THEN "a1" ELSE IF p = A2 THEN "a2" ELSE IF p = A3 THEN "a3" ELSE "b1"

Pick(order, S) == SelectSeq(order, LAMBDA p : p \in S)

InitRename ==
  \E S \in SUBSET Range(AttOrder) : \E L \in SUBSET (S \cup {NoteN}) : \E prune \in BOOLEAN :
    /\ files = [p \in S \cup {NoteN, NoteM} |->
                  IF p = NoteN THEN File("", Links(Pick(AttOrder, S \ {B1})), "idn")
                  ELSE IF p = NoteM THEN File("", Links(Pick(<<NoteN>> \o AttOrder, L)), "idm")
                  ELSE File(BytesOf(p), <<>>, "")]
    /\ folders = FoldersOf(files) \cup {<<"A">>, <<"B">>}
    /\ settings = [DefaultSettings EXCEPT !.deleteEmptyFolders = prune]
    /\ fhPrune = settings.deleteEmptyFolders
    /\ renameMap = <<>>
    /\ pc = "idle"
    /\ cursor = <<>>
    /\ updateAllLinks = "host"
    /\ faults = 0
    /\ renames = 0
    /\ cascade = NoCascade
    /\ coll = NoCollect
    /\ lastMove = NoMove
    /\ broken0 = {}
    /\ AuxIdle

\* Where the user may move a file: a note to folder A or B, an attachment to
\* the name pic or sub in its folder (as A/n/sub.png it has the name of the
\* folder A/n/sub)
UserTargets(p) ==
  IF isNote(p) THEN {[p EXCEPT !.dir = d] : d \in {<<"A">>, <<"B">>}}
  ELSE {[p EXCEPT !.stem = t, !.suf = <<>>] : t \in {"pic", "sub"}}

\* The user renames a file: the host moves it and fires vault.on("rename"),
\* handleRename (lines 32-51) runs up to its for loop
UserRename ==
  \E p \in DOMAIN files : \E q \in UserTargets(p) :
    /\ renames < MaxRenames
    /\ ~Exists(files, q)
    /\ q.dir \in folders
    /\ files' = vaultRename(files, p, q)
    /\ renames' = renames + 1
    /\ \E stale \in (IF isNote(q) THEN BOOLEAN ELSE {FALSE}) :
       \E children \in Orders(Children(files', getAttachmentFolderPath(p))) :
         /\ renameMap' = handleRenameEntry(renameMap, files', folders, q, p, children)
         /\ IF renameMap' = renameMap
            THEN /\ cascade' = IF pc = "process"
                               THEN [cascade EXCEPT !.dropped = TRUE, !.interfered = TRUE,
                                                    !.lost = @ \cup {<<p, q>>}]
                               ELSE [cascade EXCEPT !.status = "none",
                                                    !.lost = @ \cup {<<p, q>>}]
                 /\ UNCHANGED <<pc, cursor, updateAllLinks>>
            ELSE /\ pc' = "process"
                 /\ cursor' = MapKeys(renameMap')
                 /\ updateAllLinks' = "noop"
                 /\ cascade' = [status |-> "running", old |-> p, new |-> q,
                                att |-> [c \in {x \in Range(children) : ~isNote(x)} |-> files[c].bytes],
                                stale |-> stale, faulted |-> FALSE, moved |-> {<<p, q>>},
                                dropped |-> FALSE, interfered |-> FALSE,
                                skipped |-> <<>>, lost |-> {}]
    /\ UNCHANGED <<folders, faults>>
    /\ UNCHANGED <<cfgVars, collectVars, auxVars>>

\* One turn of the for loop of handleRename (lines 52-54): processRename on
\* the next entry; when it throws, the finally block (lines 55-58) runs
ProcessRename ==
  /\ pc = "process"
  /\ cursor # <<>>
  /\ LET oldPath2 == Head(cursor) IN
     \E fail \in BOOLEAN :
       /\ fail => (faults < MaxFaults /\ Exists(files, oldPath2))
       /\ LET r == processRename(files, folders, renameMap, oldPath2, MapGet(renameMap, oldPath2),
                                 cascade.stale, cascade.old, cascade.new, fail)
          IN  /\ files' = r.files
              /\ folders' = r.folders
              /\ faults' = IF fail THEN faults + 1 ELSE faults
              /\ IF r.threw
                 THEN /\ renameMap' = MapDelete(r.renameMap, cascade.old)
                      /\ updateAllLinks' = "host"
                      /\ pc' = "idle"
                      /\ cursor' = <<>>
                      /\ cascade' = [cascade EXCEPT !.status = "failed",
                                                    !.faulted = @ \/ fail,
                                                    !.skipped = Tail(cursor)]
                 ELSE /\ renameMap' = r.renameMap
                      /\ cursor' = Tail(cursor)
                      /\ cascade' = [cascade EXCEPT !.moved = @ \cup r.moved]
                      /\ UNCHANGED <<pc, updateAllLinks>>
  /\ UNCHANGED renames
  /\ UNCHANGED <<cfgVars, collectVars, auxVars>>

\* The finally block of handleRename without its line 57
EndCascadeKeepingNoop ==
  /\ pc = "process"
  /\ cursor = <<>>
  /\ renameMap' = MapDelete(renameMap, cascade.old)
  /\ pc' = "idle"
  /\ cascade' = [cascade EXCEPT !.status = "ok"]
  /\ UNCHANGED <<files, folders, cursor, faults, renames, updateAllLinks>>
  /\ UNCHANGED <<cfgVars, collectVars, auxVars>>

\* The for loop is over: the finally block of handleRename (lines 55-58)
EndCascade ==
  /\ pc = "process"
  /\ cursor = <<>>
  /\ renameMap' = MapDelete(renameMap, cascade.old)
  /\ updateAllLinks' = "host"
  /\ pc' = "idle"
  /\ cascade' = [cascade EXCEPT !.status = "ok"]
  /\ UNCHANGED <<files, folders, cursor, faults, renames>>
  /\ UNCHANGED <<cfgVars, collectVars, auxVars>>

NextRename == UserRename \/ ProcessRename \/ EndCascade

Spec == InitRename /\ [][NextRename]_vars

-----------------------------------------------------------------------------
(* Claims about the rename cascade *)

\* The place an attachment of the renamed note is re-rooted to: the same
\* relative position below the new attachment folder
Reroot(c) ==
  [c EXCEPT !.dir = getAttachmentFolderPath(cascade.new)
                      \o relative(getAttachmentFolderPath(cascade.old), c.dir)]

\* q is p or one of the unique sibling names of p
SiblingOf(q, p) ==
  q.dir = p.dir /\ q.stem = p.stem /\ q.ext = p.ext /\ IsPrefix(p.suf, q.suf)

CascadeEnded == cascade.status \in {"ok", "failed"}

\* C1: when handleRename has ended for a renamed note (no move was made to
\* fail by the environment), every attachment that was below the old
\* attachment folder is gone from its old path and its content is at its
\* re-rooted path or at a unique sibling of it.
C1_EveryAttachmentRerooted ==
  (CascadeEnded /\ ~cascade.faulted /\ ~cascade.interfered /\ isNote(cascade.new)
     /\ getAttachmentFolderPath(cascade.old) # getAttachmentFolderPath(cascade.new))
  => \A c \in DOMAIN cascade.att :
       /\ ~Exists(files, c)
       /\ \E q \in DOMAIN files : SiblingOf(q, Reroot(c)) /\ files[q].bytes = cascade.att[c]

\* C2: when a cascade has ended, no note holds a link whose text is the old
\* path of a file the cascade (or the rename that started it) moved.
C2_NoStaleLinkToMovedFile ==
  (CascadeEnded /\ ~cascade.interfered) =>
    \A m \in cascade.moved : \A n \in Notes(files) :
      \A i \in 1..Len(files[n].links) : files[n].links[i].target # m[1]

\* C2 witness: a cascade that ended normally moved an attachment to which the
\* renamed note (listed by the index under its old path) and another note link
C2_Witness ==
  /\ cascade.status = "ok"
  /\ cascade.stale
  /\ \E m \in cascade.moved :
       /\ m[1] # cascade.old
       /\ \E n \in Notes(files) \ {cascade.new} :
            \E i \in 1..Len(files[n].links) : files[n].links[i].target = m[2]
       /\ \E i \in 1..Len(files[cascade.new].links) : files[cascade.new].links[i].target = m[2]

\* C3: while the rename map is non-empty no step adds an entry to it, and a
\* rename notification that arrives then (a user rename) leaves the map, the
\* position of the running cascade, the folders and every file's content as
\* they are: the tree changes only by the host's own move.
C3_NoNestedCascade ==
  [][Len(renameMap) > 0 =>
       /\ Range(renameMap') \subseteq Range(renameMap)
       /\ renames' # renames =>
            /\ UNCHANGED <<renameMap, pc, cursor, updateAllLinks, folders>>
            /\ \E p \in DOMAIN files : \E q \in UserTargets(p) : files' = vaultRename(files, p, q)]_vars

\* C3 witness: inside a running cascade that has already moved an attachment
\* (whose notification came back to handleRename), a user rename has been
\* notified and ignored
C3_Witness ==
  /\ pc = "process"
  /\ cascade.dropped
  /\ Cardinality(cascade.moved) >= 2

\* C4: whenever a cascade has ended, normally or by an exception (no file was
\* renamed from outside while it ran), the rename map is empty.
C4_MapEmptyWhenCascadeEnds == (CascadeEnded /\ ~cascade.interfered) => renameMap = <<>>

\* C22: when processRename has failed on one entry of the rename map, the
\* loop of handleRename has still gone through every later entry: no entry
\* is left unprocessed behind the failed one.
C22_FailureConfinedToEntry ==
  (cascade.status = "failed" /\ ~cascade.interfered) =>
    \A i \in 1..Len(cascade.skipped) : ~Exists(files, cascade.skipped[i])

\* C33: a rename notification leaves more than the seed entry in the rename
\* map only when the renamed document is a note, the attachment folder of
\* its old path exists and differs from the attachment folder of its new
\* path; and a cascade moves a file only when the renamed document is a note
\* whose two attachment folders differ.
C33_ExtraEntriesOnlyForMovedNote ==
  [][/\ (renameMap = <<>> /\ Len(renameMap') > 1) =>
          /\ isNote(cascade'.new)
          /\ getAttachmentFolderPath(cascade'.old) \in folders
          /\ getAttachmentFolderPath(cascade'.old) # getAttachmentFolderPath(cascade'.new)
     /\ (pc = "process" /\ cascade'.moved # cascade.moved) =>
          /\ isNote(cascade.new)
          /\ getAttachmentFolderPath(cascade.old) # getAttachmentFolderPath(cascade.new)]_vars

\* C33 witness: the cascade of a renamed attachment, whose old name is the
\* name of a folder that holds a file, has only its seed entry
C33_Witness ==
  /\ pc = "process" /\ ~isNote(cascade.new) /\ Len(renameMap) = 1
  /\ getAttachmentFolderPath(cascade.old) \in folders
  /\ \E p \in DOMAIN files : IsPrefix(getAttachmentFolderPath(cascade.old), p.dir)

C31_NoFolderRemovedWhenPruningOff ==
  [][~settings.deleteEmptyFolders => folders \subseteq folders']_vars

\* C25: no two entries of the rename map send different files to the same
\* new path.
C25_DestinationsDistinct ==
  \A i, j \in 1..Len(renameMap) : i # j => renameMap[i][2] # renameMap[j][2]

\* The file at p is neither the file whose rename started the cascade nor
\* one of the files the cascade has moved
OutsideCascade(p) ==
  /\ p \notin {cascade.old, cascade.new}
  /\ \A c \in cascade.moved : p \notin {c[1], c[2]}

\* C27: once no handler is running (and none has failed), no note links
\* the old path of a file outside the cascade that is now at its new path
\* and whose rename notification arrived while the rename map was non-empty.
C27_DroppedRenameStillRewritten ==
  (pc = "idle" /\ cascade.status # "failed") =>
    \A m \in cascade.lost :
      (Exists(files, m[2]) /\ ~Exists(files, m[1]) /\ OutsideCascade(m[1])) =>
        \A n \in Notes(files) :
          \A i \in 1..Len(files[n].links) : files[n].links[i].target # m[1]

-----------------------------------------------------------------------------
(* FilesHandler *)

PathChange(o, n) == [oldPath |-> o, newPath |-> n]

Result(fs, fo, m, r) == [files |-> fs, folders |-> fo, movedAttachments |-> m, renamedFiles |-> r]

\* isPathIgnored (lines 70-89): the path lies in one of the ignored folders,
\* or one of the ignored-file patterns matches it; a pattern is kept as the
\* stem of the names it matches
isPathIgnoredFoldersOnly(ignoreFolders, ignoreFilesRegex, p) ==
  \E f \in ignoreFolders : IsPrefix(f, p.dir)

isPathIgnored(ignoreFolders, ignoreFilesRegex, p) ==
  \/ \E f \in ignoreFolders : IsPrefix(f, p.dir)
  \/ \E fileRegex \in ignoreFilesRegex : p.stem = fileRegex

\* LinksHandler.getCachedNotesThatHaveLinkToFile
getCachedNotesThatHaveLinkToFile(fs, path) ==
  {n \in Notes(fs) : \E i \in 1..Len(fs[n].links) : fs[n].links[i].target = path}

\* The while loop of deleteFile: trash dir, then its parent, ... while empty
RECURSIVE TrashEmptyDirs(_, _, _)
TrashEmptyDirs(fs, fo, dir) ==
  IF ~IsEmptyFolder(fs, fo, dir) THEN fo
  ELSE IF dir = Root THEN fo \ {dir}
  ELSE TrashEmptyDirs(fs, fo \ {dir}, Parent(dir))

deleteFile(fs, fo, p, deleteEmptyFolders) ==
  LET fs1 == vaultDelete(fs, p)
  IN  [files |-> fs1,
       folders |-> IF deleteEmptyFolders THEN TrashEmptyDirs(fs1, fo, p.dir) ELSE fo]

deleteEmptyFolderHierarchy(fs, fo, d) == removeEmptyFolderHierarchy(fs, fo, d)

\* handleRename (lines 32-59) for the move of an attachment while no cascade
\* is under way: fillRenameMap puts the one entry in the map, processRename
\* finds no file at oldPath and rewrites the backlinks of the file at newPath
\* (lines 116-153), the finally block empties the map again
onAttachmentRenamed(fs, fo, oldPath, newPath) ==
  LET rm == MapSet(<<>>, oldPath, newPath)
      parents == BacklinkHolders(fs, rm, oldPath, newPath, FALSE, oldPath, newPath)
  IN  RewriteParents(fs, parents, newPath, {oldPath}, rm)

\* renameSafe with a free destination: the host's rename, whose notification
\* handleRename receives
renameSafe(fs, fo, path, newPath) ==
  onAttachmentRenamed(vaultRename(fs, path, newPath), fo, path, newPath)

\* copySafe with a free destination: the host's copy
copySafe(fs, path, newPath) == vaultCopy(fs, path, newPath)

\* The six branches of moveAttachment

\* not shared, target free (lines 176-180)
MoveToTargetAsCopy(fs, fo, path, newLinkPath) ==
  Result(copySafe(fs, path, newLinkPath), fo, <<PathChange(path, newLinkPath)>>, <<>>)

MoveToTarget(fs, fo, path, newLinkPath) ==
  Result(renameSafe(fs, fo, path, newLinkPath), fo, <<PathChange(path, newLinkPath)>>, <<>>)

\* not shared, target occupied, deleteExistFiles (lines 182-186)
DeleteCollectedKeepTarget(fs, fo, path, newLinkPath, deleteEmptyFolders) ==
  LET d == deleteFile(fs, fo, newLinkPath, deleteEmptyFolders)
  IN  Result(d.files, d.folders, <<PathChange(path, newLinkPath)>>, <<>>)

DeleteCollected(fs, fo, path, newLinkPath, deleteEmptyFolders) ==
  LET d == deleteFile(fs, fo, path, deleteEmptyFolders)
  IN  Result(d.files, d.folders, <<PathChange(path, newLinkPath)>>, <<>>)

\* not shared, target occupied, keep both (lines 187-194)
MoveToUniqueRecordTarget(fs, fo, path, newLinkPath) ==
  LET newFileCopyName == getAvailablePath(fs, newLinkPath)
  IN  Result(renameSafe(fs, fo, path, newFileCopyName), fo,
             <<PathChange(path, newLinkPath)>>, <<PathChange(newLinkPath, newFileCopyName)>>)

MoveToUniqueDroppingFile(fs, fo, path, newLinkPath) ==
  LET newFileCopyName == getAvailablePath(fs, newLinkPath)
  IN  Result(vaultDelete(fs, path), fo,
             <<PathChange(path, newFileCopyName)>>, <<PathChange(newLinkPath, newFileCopyName)>>)

MoveToUnique(fs, fo, path, newLinkPath) ==
  LET newFileCopyName == getAvailablePath(fs, newLinkPath)
  IN  Result(renameSafe(fs, fo, path, newFileCopyName), fo,
             <<PathChange(path, newFileCopyName)>>, <<PathChange(newLinkPath, newFileCopyName)>>)

\* shared, target free (lines 198-204)
CopyToTargetByRename(fs, fo, path, newLinkPath) ==
  Result(renameSafe(fs, fo, path, newLinkPath), fo, <<PathChange(path, newLinkPath)>>, <<>>)

CopyToTarget(fs, fo, path, newLinkPath) ==
  Result(copySafe(fs, path, newLinkPath), fo, <<PathChange(path, newLinkPath)>>, <<>>)

\* shared, target occupied, keep both (lines 205-212)
MoveSharedToUniqueNoCopyBack(fs, fo, path, newLinkPath) ==
  LET newFileCopyName == getAvailablePath(fs, newLinkPath)
  IN  Result(renameSafe(fs, fo, path, newFileCopyName), fo,
             <<PathChange(path, newFileCopyName)>>, <<PathChange(newLinkPath, newFileCopyName)>>)

MoveSharedToUnique(fs, fo, path, newLinkPath) ==
  LET newFileCopyName == getAvailablePath(fs, newLinkPath)
      fs1 == renameSafe(fs, fo, path, newFileCopyName)
  IN  Result(copySafe(fs1, newFileCopyName, path), fo,
             <<PathChange(path, newFileCopyName)>>, <<PathChange(newLinkPath, newFileCopyName)>>)

\* shared, target occupied, deleteExistFiles (lines 213-216)
KeepSharedAsCollected(fs, fo, path, newLinkPath) ==
  LET d == deleteFile(fs, fo, path, FALSE)
  IN  Result(d.files, d.folders, <<PathChange(path, newLinkPath)>>, <<>>)

KeepShared(fs, fo, path, newLinkPath) ==
  Result(fs, fo, <<PathChange(path, newLinkPath)>>, <<>>)

\* moveAttachment (lines 139-223); prune is this.shouldDeleteEmptyFolders
moveAttachment(fs, fo, path, newLinkPath, parentNotePaths, deleteExistFiles, deleteEmptyFolders, prune, ignoreFolders, ignoreFilesRegex) ==
  IF isPathIgnored(ignoreFolders, ignoreFilesRegex, path) \/ isNote(path) \/ path = newLinkPath
  THEN Result(fs, fo, <<>>, <<>>)
  ELSE LET fo1 == createFolderSafe(fo, dirname(newLinkPath))
           linkedNotes == getCachedNotesThatHaveLinkToFile(fs, path) \ parentNotePaths
           existFile == Exists(fs, newLinkPath)
           r == IF linkedNotes = {}
                THEN IF ~existFile THEN MoveToTarget(fs, fo1, path, newLinkPath)
                     ELSE IF deleteExistFiles
                          THEN DeleteCollected(fs, fo1, path, newLinkPath, deleteEmptyFolders)
                          ELSE MoveToUnique(fs, fo1, path, newLinkPath)
                ELSE IF ~existFile THEN CopyToTarget(fs, fo1, path, newLinkPath)
                     ELSE IF ~deleteExistFiles THEN MoveSharedToUnique(fs, fo1, path, newLinkPath)
                          ELSE KeepShared(fs, fo1, path, newLinkPath)
       IN  IF prune
           THEN [r EXCEPT !.folders = deleteEmptyFolderHierarchy(r.files, r.folders, dirname(path))]
           ELSE r

\* AttachmentPath.getAttachmentFilePath: the attachment's name in the
\* attachment folder of the note
getAttachmentFilePath(path, notePath) == [path EXCEPT !.dir = getAttachmentFolderPath(notePath)]

\* generateValidBaseName: the MD5 digest of the attachment's bytes
Md5(bytes) == "md5_" \o bytes

\* The folder the host's attachmentFolderPath option names, for a note:
\* "." and "./" the note's folder, "./att" the subfolder att of it, "att" the
\* folder att of the vault
ConfiguredFolder(attachmentFolderPath, notePath) ==
  IF attachmentFolderPath \in {".", "./"} THEN notePath.dir
  ELSE IF attachmentFolderPath = "./att" THEN notePath.dir \o <<"att">>
  ELSE <<"att">>

getCustomizedNewPath(fs, attachmentFolderPath, notePath, attachment, id) ==
  P(ConfiguredFolder(attachmentFolderPath, notePath) \o <<id>>, Md5(fs[attachment].bytes),
    <<>>, attachment.ext)

Recorded(moved, fullPathLink) == \E i \in 1..Len(moved) : moved[i].oldPath = fullPathLink

\* The target collectAttachmentsForCachedNote computes for a link (lines 272-273)
NewPathFor(fs, st, notePath, path) ==
  IF ~st.customized THEN getAttachmentFilePath(path, notePath)
  ELSE getCustomizedNewPath(fs, st.attachmentFolderPath, notePath, path, fs[notePath].id)

\* The tests of lines 250-270 without the test of lines 256-258
CallsMoveAttachmentAgain(fs, moved, link) ==
  /\ Exists(fs, link.target)
  /\ ~isNote(link.target)

\* collectAttachmentsForCachedNote calls moveAttachment for this link
\* (lines 250-270: not yet recorded, the file exists and is an attachment)
CallsMoveAttachment(fs, moved, link) ==
  /\ ~Recorded(moved, link.target)
  /\ Exists(fs, link.target)
  /\ ~isNote(link.target)

\* One turn of the for loop of collectAttachmentsForCachedNote (lines 249-279)
collectLinkIgnoringSharers(fs, fo, moved, renamed, link, notePath, st, prune) ==
  IF ~CallsMoveAttachment(fs, moved, link) THEN Result(fs, fo, moved, renamed)
  ELSE LET res == moveAttachment(fs, fo, link.target, NewPathFor(fs, st, notePath, link.target),
                                 Notes(fs), st.deleteExistFilesWhenMoveNote,
                                 st.deleteEmptyFolders, prune, st.ignoreFolders, st.ignoreFilesRegex)
       IN  Result(res.files, res.folders, moved \o res.movedAttachments,
                  renamed \o res.renamedFiles)

collectLink(fs, fo, moved, renamed, link, notePath, st, prune) ==
  IF ~CallsMoveAttachment(fs, moved, link) THEN Result(fs, fo, moved, renamed)
  ELSE LET res == moveAttachment(fs, fo, link.target, NewPathFor(fs, st, notePath, link.target),
                                 {notePath}, st.deleteExistFilesWhenMoveNote,
                                 st.deleteEmptyFolders, prune, st.ignoreFolders, st.ignoreFilesRegex)
       IN  Result(res.files, res.folders, moved \o res.movedAttachments,
                  renamed \o res.renamedFiles)

\* collectAttachmentsForCachedNote returns an empty result before its loop
\* (lines 227-246: ignored note, or no ID in the frontmatter)
ReturnsEarlyWhenIgnored(fs, st, notePath) ==
  isPathIgnored(st.ignoreFolders, st.ignoreFilesRegex, notePath)

ReturnsEarly(fs, st, notePath) ==
  isPathIgnored(st.ignoreFolders, st.ignoreFilesRegex, notePath) \/ fs[notePath].id = ""

\* LinksHandler.updateChangedPathsInNote
updateChangedPathsInNote(fs, notePath, moved) ==
  [fs EXCEPT ![notePath].links =
     [i \in 1..Len(@) |->
        IF Recorded(moved, @[i].target)
        THEN Link(moved[CHOOSE k \in 1..Len(moved) : moved[k].oldPath = @[i].target].newPath)
        ELSE @[i]]]

\* The changes the callers of collectAttachmentsForCachedNote hand to
\* updateChangedPathsInNote (plugin lines 690-691, 720-721)
RewriteListWithRedirects(moved, renamed) == moved \o renamed

RewriteList(moved, renamed) == moved

-----------------------------------------------------------------------------
(* SpecCollect: collect-attachments commands in a vault with the notes      *)
(* N/x.md and N/y.md, attachments in the folder in, and files that may     *)
(* already occupy the targets of N/x.md                                    *)

NoteX == P(<<"N">>, "x", <<>>, "md")
NoteY == P(<<"N">>, "y", <<>>, "md")
I1 == P(<<"in">>, "img", <<>>, "png")
I2 == P(<<"in", "sub">>, "img", <<>>, "png")
T1 == P(<<"N", "x">>, "img", <<>>, "png")
T2 == P(<<"N", "x">>, "img", <<1>>, "png")
H1 == P(<<"N", "idx">>, Md5("c1"), <<>>, "png")
Linkable == <<I1, I2, T1>>

ContentOf(p) ==
  IF p \in {I1, H1} THEN "c1" ELSE IF p = I2 THEN "c2" ELSE IF p = T1 THEN "c3" ELSE "c4"

BrokenLinks(fs) ==
  {<<n, i>> \in Notes(fs) \X (1..Len(Linkable)) :
     i <= Len(fs[n].links) /\ ~Exists(fs, fs[n].links[i].target)}

\* The ignore lists the user may have configured
IgnoreChoices ==
  {[folders |-> {}, files |-> {}], [folders |-> {<<"in", "sub">>}, files |-> {}],
   [folders |-> {<<"N">>}, files |-> {}], [folders |-> {}, files |-> {"img"}]}

InitCollect ==
  \E S \in SUBSET {I1, I2, T1, T2, H1} :
  \E LX \in SUBSET (S \cap Range(Linkable)) : \E LY \in SUBSET (S \cap Range(Linkable)) :
  \E idx \in {"idx", ""} : \E del \in BOOLEAN : \E cust \in BOOLEAN : \E prune \in BOOLEAN :
  \E ign \in IgnoreChoices :
    /\ files = [p \in S \cup {NoteX, NoteY} |->
                  IF p = NoteX THEN File("", Links(Pick(Linkable, LX)), idx)
                  ELSE IF p = NoteY THEN File("", Links(Pick(Linkable, LY)), "idy")
                  ELSE File(ContentOf(p), <<>>, "")]
    /\ folders = FoldersOf(files) \cup {<<"in">>}
    /\ settings = [DefaultSettings EXCEPT !.deleteEmptyFolders = prune,
                                          !.deleteExistFilesWhenMoveNote = del,
                                          !.customized = cust,
                                          !.ignoreFolders = ign.folders,
                                          !.ignoreFilesRegex = ign.files]
    /\ fhPrune = settings.deleteEmptyFolders
    /\ renameMap = <<>>
    /\ pc = "idle"
    /\ cursor = <<>>
    /\ updateAllLinks = "host"
    /\ faults = 0
    /\ renames = 0
    /\ cascade = NoCascade
    /\ coll = NoCollect
    /\ lastMove = NoMove
    /\ broken0 = BrokenLinks(files)
    /\ AuxIdle

\* collectAttachments (lines 706-718) up to the loop of
\* collectAttachmentsForCachedNote: the note's cached links are read once
CollectBegin ==
  \E note \in Notes(files) :
    /\ coll.pc = "idle"
    /\ coll.count < MaxCollects
    /\ coll' = [pc |-> "loop", note |-> note,
                links |-> IF ReturnsEarly(files, settings, note) THEN <<>> ELSE files[note].links,
                moved |-> <<>>, renamed |-> <<>>, count |-> coll.count + 1, prev |-> coll.note,
                changed |-> coll.changed, seen |-> coll.seen]
    /\ UNCHANGED <<vaultVars, cfgVars, renameVars, lastMove, broken0, auxVars>>

\* One turn of the loop (lines 249-279)
CollectLink ==
  /\ coll.pc = "loop"
  /\ coll.links # <<>>
  /\ LET link == Head(coll.links)
         r == collectLink(files, folders, coll.moved, coll.renamed, link, coll.note,
                          settings, fhPrune)
         target == NewPathFor(files, settings, coll.note, link.target)
     IN  /\ files' = r.files
         /\ folders' = r.folders
         /\ coll' = [coll EXCEPT !.links = Tail(@), !.moved = r.movedAttachments,
                                 !.renamed = r.renamedFiles]
         /\ lastMove' =
              IF CallsMoveAttachment(files, coll.moved, link) /\ link.target # target
              THEN [called |-> TRUE, note |-> coll.note, path |-> link.target, target |-> target,
                    shared |-> getCachedNotesThatHaveLinkToFile(files, link.target) \ {coll.note} # {},
                    collision |-> Exists(files, target),
                    del |-> settings.deleteExistFilesWhenMoveNote]
              ELSE [lastMove EXCEPT !.called = FALSE]
  /\ UNCHANGED <<cfgVars, renameVars, broken0, auxVars>>

\* After the loop: collectAttachments rewrites the note's links (lines 720-722)
CollectEnd ==
  /\ coll.pc = "loop"
  /\ coll.links = <<>>
  /\ files' = IF Len(coll.moved) > 0
              THEN updateChangedPathsInNote(files, coll.note,
                                            RewriteList(coll.moved, coll.renamed))
              ELSE files
  /\ coll' = [coll EXCEPT !.pc = "idle"]
  /\ UNCHANGED <<folders, cfgVars, renameVars, lastMove, broken0, auxVars>>

\* saveSettings (lines 1035-1052), between two commands: the user switches
\* the option "delete empty folders"; the FilesHandler is built anew without
\* its sixth argument
SaveSettings ==
  \E b \in BOOLEAN :
    /\ coll.pc = "idle"
    /\ saves < MaxSaves
    /\ saves' = saves + 1
    /\ settings' = [settings EXCEPT !.deleteEmptyFolders = b]
    /\ fhPrune' = FALSE
    /\ UNCHANGED <<vaultVars, renameVars, collectVars, lastDelete, deletedNoteCache, bulk, fmt>>

NextCollect == CollectBegin \/ CollectLink \/ CollectEnd \/ SaveSettings

SpecCollect == InitCollect /\ [][NextCollect]_vars

-----------------------------------------------------------------------------
(* Claims about the attachment collector *)

\* The call of moveAttachment that the next turn of the loop makes
ClLink == Head(coll.links)
ClPath == ClLink.target
ClTarget == NewPathFor(files, settings, coll.note, ClPath)

\* The next turn calls moveAttachment and the call passes its early returns
ClMoves ==
  /\ coll.pc = "loop"
  /\ coll.links # <<>>
  /\ CallsMoveAttachment(files, coll.moved, ClLink)
  /\ ~isPathIgnored(settings.ignoreFolders, settings.ignoreFilesRegex, ClPath)
  /\ ClPath # ClTarget

ClShared == getCachedNotesThatHaveLinkToFile(files, ClPath) \ {coll.note} # {}

ClCase(shared, collision) ==
  ClMoves /\ ClShared = shared /\ Exists(files, ClTarget) = collision

ClDelete == settings.deleteExistFilesWhenMoveNote

\* What the turn appended to a result list
Added(after, before) == SubSeq(after, Len(before) + 1, Len(after))

HasLinkTo(fs, n, p) == \E i \in 1..Len(fs[n].links) : fs[n].links[i].target = p

\* C5: whenever no collection is running, every link occurrence that is
\* broken was broken before the first collection; and a turn of the collector
\* on an attachment that another note links leaves a file with the same
\* content at the attachment's path.
C5_NoLinkBrokenByCollection ==
  /\ [](coll.pc = "idle" => BrokenLinks(files) \subseteq broken0)
  /\ [][(ClMoves /\ ClShared) =>
          /\ Exists(files', ClPath)
          /\ files'[ClPath].bytes = files[ClPath].bytes]_vars

\* C5 witness: a collection has ended whose last turn handled a shared
\* attachment by moving it away and copying it back, and an earlier turn
\* deleted or moved another attachment of the note
C5_Witness ==
  /\ coll.pc = "idle"
  /\ lastMove.called /\ lastMove.shared /\ lastMove.collision
  /\ Exists(files, lastMove.path)
  /\ Len(coll.moved) >= 2
  /\ BrokenLinks(files) = {}

\* C6 as stated: shared, collision, deleteExisting: the turn changes no file
\* and records nothing.
C6_SharedCollisionDeleteRecordsNothing ==
  [][(ClCase(TRUE, TRUE) /\ ClDelete) =>
       /\ files' = files
       /\ coll'.moved = coll.moved
       /\ coll'.renamed = coll.renamed]_vars

\* C6 amended: shared, collision, deleteExisting: the turn changes no file and
\* no folder, records no redirect, and records the pair original -> target in
\* the moved attachments.
C6_SharedCollisionDeleteRecordsPair ==
  [][(ClCase(TRUE, TRUE) /\ ClDelete) =>
       /\ files' = files
       /\ folders' = folders
       /\ Added(coll'.moved, coll.moved) = <<PathChange(ClPath, ClTarget)>>
       /\ coll'.renamed = coll.renamed]_vars

\* C6 witness: the last turn met a shared attachment whose target was taken,
\* with deleteExisting set; the original is still there and the pair is recorded
C6_Witness ==
  /\ lastMove.called /\ lastMove.shared /\ lastMove.collision /\ lastMove.del
  /\ Exists(files, lastMove.path)
  /\ \E k \in 1..Len(coll.moved) : coll.moved[k] = PathChange(lastMove.path, lastMove.target)

\* C7: shared, collision, keep both: after the turn the content of the
\* attachment is at a new unique sibling of the target and at the original
\* path, the file at the target is as it was, and the move original -> unique
\* and the redirect target -> unique are recorded.
C7_SharedCollisionKeepBoth ==
  [][(ClCase(TRUE, TRUE) /\ ~ClDelete) =>
       \E u \in DOMAIN files' \ DOMAIN files :
         /\ SiblingOf(u, ClTarget)
         /\ DOMAIN files' = DOMAIN files \cup {u}
         /\ files'[u].bytes = files[ClPath].bytes
         /\ files'[ClPath].bytes = files[ClPath].bytes
         /\ files'[ClTarget] = files[ClTarget]
         /\ Added(coll'.moved, coll.moved) = <<PathChange(ClPath, u)>>
         /\ Added(coll'.renamed, coll.renamed) = <<PathChange(ClTarget, u)>>]_vars

\* C7 witness: the last turn met a shared attachment whose target was taken,
\* deleteExisting unset; a redirect is recorded to a file with the content
\* that is also at the original path
C7_Witness ==
  /\ coll.pc = "loop"
  /\ lastMove.called /\ lastMove.shared /\ lastMove.collision /\ ~lastMove.del
  /\ \E k \in 1..Len(coll.renamed) :
       /\ coll.renamed[k].oldPath = lastMove.target
       /\ Exists(files, coll.renamed[k].newPath)
       /\ Exists(files, lastMove.path)
       /\ files[coll.renamed[k].newPath].bytes = files[lastMove.path].bytes

\* C8: shared, no collision: after the turn the target holds the content of
\* the attachment, the original file is as it was, no other file appeared or
\* went, the links of every other note are as they were, the pair
\* original -> target is recorded and no redirect is.
C8_SharedNoCollisionCopies ==
  [][ClCase(TRUE, FALSE) =>
       /\ DOMAIN files' = DOMAIN files \cup {ClTarget}
       /\ files'[ClTarget].bytes = files[ClPath].bytes
       /\ files'[ClPath] = files[ClPath]
       /\ \A n \in Notes(files) \ {coll.note} : files'[n].links = files[n].links
       /\ Added(coll'.moved, coll.moved) = <<PathChange(ClPath, ClTarget)>>
       /\ coll'.renamed = coll.renamed]_vars

\* C8 witness: the last turn copied a shared attachment to its free target and
\* another note still links the original
C8_Witness ==
  /\ lastMove.called /\ lastMove.shared /\ ~lastMove.collision
  /\ Exists(files, lastMove.target)
  /\ Exists(files, lastMove.path)
  /\ \E n \in Notes(files) \ {lastMove.note} : HasLinkTo(files, n, lastMove.path)

\* C9: not shared, collision, keep both: after the turn the attachment is
\* gone from its path and its content is at a new unique sibling of the
\* target, the file at the target is as it was, the move original -> unique
\* and the redirect target -> unique are recorded; and when the collection
\* ends, the collecting note links the unique name of every attachment so
\* moved and no longer its original path.
C9_UnsharedCollisionKeepBoth ==
  /\ [][(ClCase(FALSE, TRUE) /\ ~ClDelete) =>
          \E u \in DOMAIN files' \ DOMAIN files :
            /\ SiblingOf(u, ClTarget)
            /\ DOMAIN files' = (DOMAIN files \ {ClPath}) \cup {u}
            /\ files'[u].bytes = files[ClPath].bytes
            /\ files'[ClTarget] = files[ClTarget]
            /\ Added(coll'.moved, coll.moved) = <<PathChange(ClPath, u)>>
            /\ Added(coll'.renamed, coll.renamed) = <<PathChange(ClTarget, u)>>]_vars
  /\ [][(coll.pc = "loop" /\ coll.links = <<>>) =>
          \A j \in 1..Len(coll.moved) :
            (/\ \E k \in 1..Len(coll.renamed) : coll.renamed[k].newPath = coll.moved[j].newPath
             /\ ~Exists(files, coll.moved[j].oldPath))
            => /\ HasLinkTo(files', coll.note, coll.moved[j].newPath)
               /\ ~HasLinkTo(files', coll.note, coll.moved[j].oldPath)]_vars

\* C9 witness: a collection has ended whose last turn moved an unshared
\* attachment to a unique sibling of its taken target, and the note links it
C9_Witness ==
  /\ coll.pc = "idle"
  /\ lastMove.called /\ ~lastMove.shared /\ lastMove.collision /\ ~lastMove.del
  /\ ~Exists(files, lastMove.path)
  /\ \E k \in 1..Len(coll.renamed) :
       /\ coll.renamed[k].oldPath = lastMove.target
       /\ coll.renamed[k].newPath # lastMove.target
       /\ HasLinkTo(files, lastMove.note, coll.renamed[k].newPath)

\* C10: not shared, collision, deleteExisting: after the turn the attachment
\* is gone, every other file (the one at the target among them) is as it was,
\* the pair original -> target is recorded and no redirect is.
C10_UnsharedCollisionDelete ==
  [][(ClCase(FALSE, TRUE) /\ ClDelete) =>
       /\ DOMAIN files' = DOMAIN files \ {ClPath}
       /\ \A p \in DOMAIN files' : files'[p] = files[p]
       /\ Added(coll'.moved, coll.moved) = <<PathChange(ClPath, ClTarget)>>
       /\ coll'.renamed = coll.renamed]_vars

\* C10 witness: the last turn deleted an unshared attachment whose target was
\* taken, and the file at the target is there
C10_Witness ==
  /\ lastMove.called /\ ~lastMove.shared /\ lastMove.collision /\ lastMove.del
  /\ ~Exists(files, lastMove.path)
  /\ Exists(files, lastMove.target)
  /\ \E k \in 1..Len(coll.moved) : coll.moved[k] = PathChange(lastMove.path, lastMove.target)

\* C11: not shared, no collision: after the turn the attachment is gone from
\* its path and its content is at the target, no other file appeared or went,
\* exactly the pair original -> target is recorded and no redirect is.
C11_UnsharedNoCollisionMoves ==
  [][ClCase(FALSE, FALSE) =>
       /\ DOMAIN files' = (DOMAIN files \ {ClPath}) \cup {ClTarget}
       /\ files'[ClTarget].bytes = files[ClPath].bytes
       /\ Added(coll'.moved, coll.moved) = <<PathChange(ClPath, ClTarget)>>
       /\ coll'.renamed = coll.renamed]_vars

\* C11 witness: the last turn moved an unshared attachment to its free target
C11_Witness ==
  /\ lastMove.called /\ ~lastMove.shared /\ ~lastMove.collision
  /\ ~Exists(files, lastMove.path)
  /\ Exists(files, lastMove.target)
  /\ \E k \in 1..Len(coll.moved) : coll.moved[k] = PathChange(lastMove.path, lastMove.target)

-----------------------------------------------------------------------------
(* SpecDelete: deletions in the vault of Spec, with the option "delete      *)
(* attachments with note" on or off                                        *)

\* Vault.removeFolderSafe(folderPath, removedNotePath): removes below the
\* folder every file that no note other than the removed one links, and every
\* folder in which nothing is kept
removeFolderSafe(fs, fo, folderPath, removedNotePath) ==
  IF folderPath \notin fo THEN [files |-> fs, folders |-> fo]
  ELSE LET inside == Children(fs, folderPath)
           kept == {c \in inside : getBacklinksForFile(fs, c, {}) \ {removedNotePath} # {}}
       IN  [files |-> [p \in DOMAIN fs \ (inside \ kept) |-> fs[p]],
            folders |-> {d \in fo : IsPrefix(folderPath, d) => \E c \in kept : IsPrefix(d, c.dir)}]

\* handleDelete (lines 61-70) with the whole attachment folder removed
handleDeleteWholeFolder(fs, fo, filePath) ==
  IF ~isNote(filePath) THEN [files |-> fs, folders |-> fo]
  ELSE LET attachmentFolder == getAttachmentFolderPath(filePath)
       IN  [files |-> [p \in DOMAIN fs \ Children(fs, attachmentFolder) |-> fs[p]],
            folders |-> {d \in fo : ~IsPrefix(attachmentFolder, d)}]

\* handleDelete (lines 61-70)
handleDelete(fs, fo, filePath) ==
  IF ~isNote(filePath) THEN [files |-> fs, folders |-> fo]
  ELSE removeFolderSafe(fs, fo, getAttachmentFolderPath(filePath), filePath)

InitDelete ==
  \E S \in SUBSET Range(AttOrder) : \E L \in SUBSET (S \cup {NoteN}) : \E orphans \in BOOLEAN :
    /\ files = [p \in S \cup {NoteN, NoteM} |->
                  IF p = NoteN THEN File("", Links(Pick(AttOrder, S \ {B1})), "idn")
                  ELSE IF p = NoteM THEN File("", Links(Pick(<<NoteN>> \o AttOrder, L)), "idm")
                  ELSE File(BytesOf(p), <<>>, "")]
    /\ folders = FoldersOf(files) \cup {<<"A">>, <<"B">>}
    /\ settings = [DefaultSettings EXCEPT !.deleteAttachmentsWithNote = orphans]
    /\ fhPrune = settings.deleteEmptyFolders
    /\ renameMap = <<>>
    /\ pc = "idle"
    /\ cursor = <<>>
    /\ updateAllLinks = "host"
    /\ faults = 0
    /\ renames = 0
    /\ cascade = NoCascade
    /\ coll = NoCollect
    /\ lastMove = NoMove
    /\ broken0 = {}
    /\ lastDelete = NoDelete
    /\ deletedNoteCache = {}
    /\ saves = 0
    /\ bulk = NoBulk
    /\ fmt = <<>>

\* handleDeletedMetadata (lines 876-882), called when the host hands over
\* the cache it had for the file (lines 485-490)
handleDeletedMetadata(cache, st, filePath, prevCache) ==
  IF ~prevCache THEN cache
  ELSE IF ~st.deleteAttachmentsWithNote
          \/ isPathIgnored(st.ignoreFolders, st.ignoreFilesRegex, filePath)
          \/ filePath.ext # "md"
  THEN cache
  ELSE cache \cup {filePath}

\* The user deletes a file: the host removes it and fires vault.on("delete"),
\* which runs handleDelete, and metadataCache.on("deleted") with the cache it
\* had for the file, if any
Deleted(p) ==
  /\ lastDelete.count < MaxDeletes
  /\ \E prevCache \in (IF isNote(p) THEN BOOLEAN ELSE {FALSE}) :
       deletedNoteCache' = handleDeletedMetadata(deletedNoteCache, settings, p, prevCache)
  /\ LET r == handleDelete(vaultDelete(files, p), folders, p)
     IN  /\ files' = r.files
         /\ folders' = r.folders
  /\ lastDelete' = [done |-> TRUE, path |-> p, files |-> files, folders |-> folders,
                    count |-> lastDelete.count + 1]
  /\ UNCHANGED <<cfgVars, renameVars, collectVars, saves, bulk, fmt>>

DeleteNote == \E p \in Notes(files) : Deleted(p)

DeleteAttachment == \E p \in DOMAIN files \ Notes(files) : Deleted(p)

NextDelete == DeleteNote \/ DeleteAttachment

SpecDelete == InitDelete /\ [][NextDelete]_vars

-----------------------------------------------------------------------------
(* Claims about deletion *)

C34_CacheEmptyBetweenDeletes == deletedNoteCache = {}

\* C13: with the option "delete attachments with note" off, after a delete
\* notification is handled the tree is the tree before it minus the deleted
\* file.
C13_OptionOffDeletesNothingElse ==
  (lastDelete.done /\ ~settings.deleteAttachmentsWithNote) =>
    /\ files = vaultDelete(lastDelete.files, lastDelete.path)
    /\ folders = lastDelete.folders

-----------------------------------------------------------------------------
(* Further claims about the attachment collector *)

\* The path matches an ignored folder prefix or an ignored filename pattern
MatchesIgnore(p) ==
  \/ \E f \in settings.ignoreFolders : IsPrefix(f, p.dir)
  \/ p.stem \in settings.ignoreFilesRegex

\* C14: a collection of a note whose path matches the ignore lists has no
\* link to visit and an empty result; and a step of a collection whose note
\* matches them, or whose next attachment matches them, leaves every file and
\* folder as it is and adds nothing to the result.
C14_IgnoredPathsAreNoOp ==
  /\ []((coll.pc = "loop" /\ MatchesIgnore(coll.note)) =>
          coll.links = <<>> /\ coll.moved = <<>> /\ coll.renamed = <<>>)
  /\ [][(/\ coll.pc = "loop"
         /\ \/ MatchesIgnore(coll.note)
            \/ coll.links # <<>> /\ MatchesIgnore(ClPath)) =>
          /\ files' = files
          /\ folders' = folders
          /\ coll'.moved = coll.moved
          /\ coll'.renamed = coll.renamed]_vars

\* C14 witness: a collection is over that visited a link to an existing
\* attachment matching an ignored filename pattern, away from its target, and
\* moved nothing
C14_Witness ==
  /\ coll.pc = "idle" /\ coll.count > 0
  /\ settings.ignoreFilesRegex # {}
  /\ ~MatchesIgnore(coll.note)
  /\ coll.moved = <<>>
  /\ \E i \in 1..Len(files[coll.note].links) :
       LET a == files[coll.note].links[i].target
       IN  Exists(files, a) /\ MatchesIgnore(a) /\ a.dir # getAttachmentFolderPath(coll.note)

\* C15: in content-addressed mode a collection of a note without ID has no
\* link to visit and an empty result, and its steps leave every file and
\* folder as they are.
C15_MissingIdSkipsNote ==
  /\ []((coll.pc = "loop" /\ settings.customized /\ files[coll.note].id = "") =>
          coll.links = <<>> /\ coll.moved = <<>> /\ coll.renamed = <<>>)
  /\ [][(coll.pc = "loop" /\ settings.customized /\ files[coll.note].id = "") =>
          files' = files /\ folders' = folders]_vars

\* C15 witness: in content-addressed mode the note without ID, which links an
\* existing attachment, was skipped, and the next collection moved an
\* attachment of the other note
C15_Witness ==
  /\ settings.customized
  /\ coll.count = 2
  /\ coll.prev # <<>> /\ coll.prev # coll.note
  /\ files[coll.prev].id = ""
  /\ \E i \in 1..Len(files[coll.prev].links) : Exists(files, files[coll.prev].links[i].target)
  /\ lastMove.called /\ lastMove.note = coll.note
  /\ Len(coll.moved) > 0

\* C18: with the option "delete empty folders" on, a turn that calls
\* moveAttachment leaves the attachment's previous folder either non-empty or
\* removed.
C18_EmptiedFolderPruned ==
  [][(ClMoves /\ settings.deleteEmptyFolders) =>
       LET oldFolder == dirname(ClPath)
       IN  \/ oldFolder \notin folders'
           \/ \E p \in DOMAIN files' : p.dir = oldFolder
           \/ \E d \in folders' : d # oldFolder /\ IsPrefix(oldFolder, d)]_vars

\* C24: in default naming mode a collection of a note that is not ignored
\* visits every link of the note, whether or not the note has an ID.
C24_DefaultModeIgnoresId ==
  [][(coll.pc = "idle" /\ coll'.pc = "loop" /\ ~settings.customized /\ ~MatchesIgnore(coll'.note))
       => coll'.links = files[coll'.note].links]_vars

\* C26 as stated: when a collection that recorded a redirect target ->
\* unique name ends, the redirect is in the rename map or has been applied
\* to the links: no note links the redirect's old path any more.
C26_RedirectConsumed ==
  [][(coll.pc = "loop" /\ coll.links = <<>>) =>
       \A k \in 1..Len(coll.renamed) :
         \/ MapHas(renameMap', coll.renamed[k].oldPath)
         \/ \A n \in Notes(files') : ~HasLinkTo(files', n, coll.renamed[k].oldPath)]_vars

\* C26 amended: the redirect is recorded and nothing more: when the
\* collection ends the rename map is as it was and every link to the
\* redirect's old path (the file that was already at the target) still
\* points there.
C26_RedirectNotConsumed ==
  [][(coll.pc = "loop" /\ coll.links = <<>>) =>
       /\ renameMap' = renameMap
       /\ \A k \in 1..Len(coll.renamed) : \A n \in Notes(files) :
            \A i \in 1..Len(files[n].links) :
              files[n].links[i].target = coll.renamed[k].oldPath
                => files'[n].links[i].target = coll.renamed[k].oldPath]_vars

\* C26 witness: a collection has ended that recorded a redirect, and the
\* collected note links both the moved attachment under its unique name and
\* the file at the redirect's old path
C26_Witness ==
  /\ coll.pc = "idle"
  /\ \E k \in 1..Len(coll.renamed) :
       /\ HasLinkTo(files, coll.note, coll.renamed[k].oldPath)
       /\ HasLinkTo(files, coll.note, coll.renamed[k].newPath)
       /\ Exists(files, coll.renamed[k].oldPath)

\* C28: a second collection of the note just collected, with no settings
\* saved in between, changes no file and no folder and records nothing.
C28_SecondCollectionDoesNothing ==
  [][(coll.pc = "loop" /\ coll.count >= 2 /\ coll.prev = coll.note /\ saves = 0) =>
       /\ files' = files
       /\ folders' = folders
       /\ coll'.moved = <<>>]_vars

\* C30: with deleteExistFilesWhenMoveNote off, after every step of a
\* collection each file either is at its path with its content, or this step
\* recorded a new path for it and its content is there.
C30_KeepBothNeverDeletes ==
  [][(coll.pc = "loop" /\ ~ClDelete) =>
       \A p \in DOMAIN files :
         \/ Exists(files', p) /\ files'[p].bytes = files[p].bytes
         \/ \E j \in (Len(coll.moved) + 1)..Len(coll'.moved) :
              /\ coll'.moved[j].oldPath = p
              /\ Exists(files', coll'.moved[j].newPath)
              /\ files'[coll'.moved[j].newPath].bytes = files[p].bytes]_vars

\* C30 witness: with the option off, a collection has ended that moved one
\* attachment to its free target and another to a unique sibling of its
\* taken target
C30_Witness ==
  /\ coll.pc = "idle"
  /\ ~ClDelete
  /\ Len(coll.moved) >= 2
  /\ Len(coll.renamed) >= 1
  /\ \A j \in 1..Len(coll.moved) : Exists(files, coll.moved[j].newPath)

-----------------------------------------------------------------------------
(* Bulk commands: FilesHandler.deleteEmptyFolders, processNotes, the       *)
(* convert-all and replace-all commands, checkConsistency, reorganizeVault *)

\* A folder path as isPathIgnored sees it
FolderAsPath(d) == P(d, "", <<>>, "")

IgnoredFolder(st, d) == isPathIgnored(st.ignoreFolders, st.ignoreFilesRegex, FolderAsPath(d))

\* listSafe(dirName).folders
Subfolders(fo, d) == {g \in fo : Len(g) = Len(d) + 1 /\ IsPrefix(d, g)}

\* The folders deleteEmptyFolders(dir) reaches its second listSafe for, in
\* that order (lines 285-298)
RECURSIVE PreOrder(_, _, _)
RECURSIVE PreOrderAll(_, _, _)
PreOrderAll(fo, st, dirs) ==
  IF dirs = {} THEN <<>>
  ELSE LET d == CHOOSE x \in dirs : TRUE
       IN  PreOrder(fo, st, d) \o PreOrderAll(fo, st, dirs \ {d})

PreOrder(fo, st, dir) ==
  IF IgnoredFolder(st, dir) THEN <<>>
  ELSE <<dir>> \o PreOrderAll(fo, st, Subfolders(fo, dir))

RECURSIVE PostOrder(_, _, _)
RECURSIVE PostOrderAll(_, _, _)
PostOrderAll(fo, st, dirs) ==
  IF dirs = {} THEN <<>>
  ELSE LET d == CHOOSE x \in dirs : TRUE
       IN  PostOrder(fo, st, d) \o PostOrderAll(fo, st, dirs \ {d})

PostOrder(fo, st, dir) ==
  IF IgnoredFolder(st, dir) THEN <<>>
  ELSE PostOrderAll(fo, st, Subfolders(fo, dir)) \o <<dir>>

\* collectAttachmentsForCachedNote: its loop over the links of the note
RECURSIVE collectLinks(_, _, _, _, _, _, _, _)
RECURSIVE collectLinksFrom(_, _, _, _, _)
collectLinksFrom(r, links, notePath, st, prune) ==
  collectLinks(r.files, r.folders, r.movedAttachments, r.renamedFiles, links, notePath, st, prune)

collectLinks(fs, fo, moved, renamed, links, notePath, st, prune) ==
  IF links = <<>> THEN Result(fs, fo, moved, renamed)
  ELSE collectLinksFrom(collectLink(fs, fo, moved, renamed, Head(links), notePath, st, prune),
                        Tail(links), notePath, st, prune)

\* processNotes, lines 690-694: the note is rewritten when something moved
updateCollectedNote(r, notePath) ==
  [files |-> IF Len(r.movedAttachments) > 0
             THEN updateChangedPathsInNote(r.files, notePath,
                                           RewriteList(r.movedAttachments, r.renamedFiles))
             ELSE r.files,
   folders |-> r.folders]

\* One turn of the loop of processNotes (lines 680-694)
collectNote(fs, fo, notePath, st, prune) ==
  IF ReturnsEarly(fs, st, notePath) THEN [files |-> fs, folders |-> fo]
  ELSE updateCollectedNote(
         collectLinks(fs, fo, <<>>, <<>>, fs[notePath].links, notePath, st, prune), notePath)

Conversions == {"wikilinks", "wikiembeds", "embedsRelative", "linksRelative"}

Commands ==
  {"reorganize", "collectAll", "deleteEmptyFolders", "checkConsistency"} \cup Conversions

\* reorganizeVault (lines 917-927) with collection before the conversions
ReorganizeCollectFirst ==
  <<"collect", "wikilinks", "wikiembeds", "embedsRelative", "linksRelative", "prune">>

\* reorganizeVault (lines 917-927): the commands it awaits one after another
Reorganize ==
  <<"wikilinks", "wikiembeds", "embedsRelative", "linksRelative", "collect", "prune">>

StagesOf(cmd) ==
  IF cmd = "reorganize" THEN Reorganize
  ELSE IF cmd = "collectAll" THEN <<"collect">>
  ELSE IF cmd = "deleteEmptyFolders" THEN <<"prune">>
  ELSE IF cmd = "checkConsistency" THEN <<"check">>
  ELSE <<cmd>>

\* getMarkdownFilesSorted
SortedNotes(fs) == Pick(<<NoteX, NoteY>>, Notes(fs))

ReportFile == P(<<>>, "consistency-report", <<>>, "md")

\* The command goes on to the stages given: the loop of the first is set up
EnterStages(b, stages, fs, fo, st) ==
  IF stages = <<>>
  THEN [b EXCEPT !.running = FALSE, !.stages = <<>>, !.queue = <<>>, !.todo = <<>>]
  ELSE IF Head(stages) = "prune"
  THEN [b EXCEPT !.stages = stages, !.queue = <<>>, !.todo = PostOrder(fo, st, Root),
                 !.observed = FALSE, !.started = Append(@, "prune"),
                 !.files0 = fs, !.folders0 = fo]
  ELSE [b EXCEPT !.stages = stages, !.queue = SortedNotes(fs), !.todo = <<>>,
                 !.started = Append(@, Head(stages))]

\* The vaults the bulk commands are run on: two notes, at most one
\* attachment outside their folders, and folders that hold no file
EmptyLeaves == {<<"E", "a">>, <<"E", "b">>, <<"F">>}

FmtChoices ==
  {[n \in {NoteX, NoteY} |-> Conversions], [n \in {NoteX, NoteY} |-> {}],
   [n \in {NoteX, NoteY} |-> IF n = NoteX THEN {"wikilinks", "linksRelative"} ELSE {}]}

InitBulk ==
  \E S \in SUBSET {I1} : \E LX \in SUBSET S : \E LY \in SUBSET S :
  \E leaves \in SUBSET EmptyLeaves : \E ign \in {{}, {<<"E", "a">>}, {<<"N">>}} :
  \E prune \in BOOLEAN : \E f \in FmtChoices :
    /\ files = [p \in S \cup {NoteX, NoteY} |->
                  IF p = NoteX THEN File("", Links(Pick(Linkable, LX)), "idx")
                  ELSE IF p = NoteY THEN File("", Links(Pick(Linkable, LY)), "idy")
                  ELSE File(ContentOf(p), <<>>, "")]
    /\ folders = FoldersOf(files) \cup {<<"in">>} \cup UNION {Ancestors(d) : d \in leaves}
    /\ settings = [DefaultSettings EXCEPT !.deleteEmptyFolders = prune, !.ignoreFolders = ign]
    /\ fhPrune = settings.deleteEmptyFolders
    /\ renameMap = <<>>
    /\ pc = "idle"
    /\ cursor = <<>>
    /\ updateAllLinks = "host"
    /\ faults = 0
    /\ renames = 0
    /\ cascade = NoCascade
    /\ coll = NoCollect
    /\ lastMove = NoMove
    /\ broken0 = BrokenLinks(files)
    /\ lastDelete = NoDelete
    /\ deletedNoteCache = {}
    /\ saves = 0
    /\ bulk = NoBulk
    /\ fmt = f

Stage == IF bulk.stages = <<>> THEN "none" ELSE Head(bulk.stages)

\* The user invokes one of the bulk commands (onloadComplete, lines 36-110)
StartCommand ==
  \E c \in Commands :
    /\ bulk.cmd = "none"
    /\ bulk' = EnterStages([NoBulk EXCEPT !.cmd = c, !.running = TRUE, !.files0 = files,
                                          !.folders0 = folders, !.fmt0 = fmt],
                           StagesOf(c), files, folders, settings)
    /\ UNCHANGED <<vaultVars, cfgVars, renameVars, collectVars, lastDelete, deletedNoteCache, saves, fmt>>

\* collectAttachmentsForCachedNote when the first physical operation for the
\* only link of the note throws: the target folder has been created
\* (moveAttachment, line 161), no file has changed
failedCollect(fs, fo, notePath, st) ==
  [files |-> fs,
   folders |-> createFolderSafe(fo, dirname(NewPathFor(fs, st, notePath,
                                                       fs[notePath].links[1].target)))]

\* One turn of the loop over the notes: the cancellation check at its top
\* has passed (lines 622, 672, 778, 830, 939, 988).  fail: the environment
\* makes the physical move, copy or delete of the turn fail; nothing in
\* processNotes or reorganizeVault catches the exception
ProcessNote ==
  /\ bulk.running /\ ~bulk.aborted
  /\ Stage \notin {"none", "prune"}
  /\ bulk.queue # <<>>
  /\ \E r \in {IF Stage = "collect"
               THEN collectNote(files, folders, Head(bulk.queue), settings, fhPrune)
               ELSE [files |-> files, folders |-> folders]} :
     \E fail \in BOOLEAN :
     LET n == Head(bulk.queue)
         ignored == isPathIgnored(settings.ignoreFolders, settings.ignoreFilesRegex, n)
         f == failedCollect(files, folders, n, settings)
     IN  /\ fail => (faults < MaxFaults /\ Len(files[n].links) = 1 /\ r.files # files)
         /\ files' = IF fail THEN f.files ELSE r.files
         /\ folders' = IF fail THEN f.folders ELSE r.folders
         /\ faults' = IF fail THEN faults + 1 ELSE faults
         /\ fmt' = IF Stage \in Conversions /\ ~ignored
                   THEN [fmt EXCEPT ![n] = @ \ {Stage}] ELSE fmt
         /\ bulk' = IF fail
                    THEN [bulk EXCEPT !.error = TRUE, !.running = FALSE, !.failed = <<n>>]
                    ELSE [bulk EXCEPT !.queue = Tail(@), !.done = @ \cup {<<Stage, n>>}]
  /\ UNCHANGED <<cfgVars, renameMap, pc, cursor, updateAllLinks, renames, cascade,
                 collectVars, lastDelete, deletedNoteCache, saves>>

\* The loop over the notes is left, at its end or at the cancellation check,
\* and the command goes on: checkConsistency writes its report after a loop
\* that ended (lines 633-643), processNotes shows its count after a loop that
\* ended (lines 697-703), reorganizeVault awaits its next command
StageReturn ==
  /\ bulk.running
  /\ Stage \notin {"none", "prune"}
  /\ bulk.queue = <<>> \/ bulk.aborted
  /\ files' = IF Stage = "check" /\ bulk.queue = <<>>
              THEN With(files, ReportFile, File("report", <<>>, "")) ELSE files
  /\ bulk' = EnterStages([bulk EXCEPT !.reported = @ \/ (Stage = "collect" /\ bulk.queue = <<>>)],
                         Tail(bulk.stages), files', folders, settings)
  /\ UNCHANGED <<folders, cfgVars, renameVars, collectVars, lastDelete, deletedNoteCache, saves, fmt>>

\* deleteEmptyFolders, line 298-299: the second listing of a folder
PruneObserve ==
  /\ bulk.running /\ Stage = "prune"
  /\ bulk.todo # <<>> /\ ~bulk.observed
  /\ bulk' = IF IsEmptyFolder(files, folders, Head(bulk.todo))
             THEN [bulk EXCEPT !.observed = TRUE]
             ELSE [bulk EXCEPT !.todo = Tail(@)]
  /\ UNCHANGED <<vaultVars, cfgVars, renameVars, collectVars, lastDelete, deletedNoteCache, saves, fmt>>

\* deleteEmptyFolders, lines 301-309: rmdir of the folder seen empty; its
\* failure is rethrown while the folder still exists.  Nothing keeps the
\* root from being handed to rmdir: whether the adapter removes it or
\* refuses is the host's choice
PruneRemove ==
  /\ bulk.running /\ Stage = "prune"
  /\ bulk.todo # <<>> /\ bulk.observed
  /\ LET d == Head(bulk.todo)
     IN  \E removed \in (IF d = Root THEN BOOLEAN ELSE {IsEmptyFolder(files, folders, d)}) :
         IF removed /\ IsEmptyFolder(files, folders, d)
         THEN /\ folders' = folders \ {d}
              /\ bulk' = [bulk EXCEPT !.todo = Tail(@), !.observed = FALSE]
         ELSE /\ folders' = folders
              /\ bulk' = [bulk EXCEPT !.error = TRUE, !.running = FALSE, !.observed = FALSE]
  /\ UNCHANGED <<files, cfgVars, renameVars, collectVars, lastDelete, deletedNoteCache, saves, fmt>>

\* deleteEmptyFolders('/') has returned (lines 872-874)
PruneReturn ==
  /\ bulk.running /\ Stage = "prune"
  /\ bulk.todo = <<>>
  /\ bulk' = EnterStages([bulk EXCEPT !.pruned = TRUE], Tail(bulk.stages),
                         files, folders, settings)
  /\ UNCHANGED <<vaultVars, cfgVars, renameVars, collectVars, lastDelete, deletedNoteCache, saves, fmt>>

\* The abort signal of the plugin is raised while a command runs
Abort ==
  /\ bulk.running /\ ~bulk.aborted
  /\ bulk' = [bulk EXCEPT !.aborted = TRUE]
  /\ UNCHANGED <<vaultVars, cfgVars, renameVars, collectVars, lastDelete, deletedNoteCache, saves, fmt>>

\* Another writer creates a file in a folder the pruning has yet to leave
ConcurrentWrite ==
  /\ bulk.running /\ Stage = "prune"
  /\ bulk.writes < MaxWrites
  /\ \E d \in Range(bulk.todo) \ {Root} :
       files' = With(files, P(d, "new", <<>>, "png"), File("w", <<>>, ""))
  /\ bulk' = [bulk EXCEPT !.writes = @ + 1]
  /\ UNCHANGED <<folders, cfgVars, renameVars, collectVars, lastDelete, deletedNoteCache, saves, fmt>>

NextBulk ==
  \/ StartCommand
  \/ ProcessNote
  \/ StageReturn
  \/ PruneObserve
  \/ PruneRemove
  \/ PruneReturn
  \/ Abort
  \/ ConcurrentWrite

SpecBulk == InitBulk /\ [][NextBulk]_vars

-----------------------------------------------------------------------------
(* Claims about the bulk commands *)

HasFileBelow(fs, d) == \E p \in DOMAIN fs : IsPrefix(d, p.dir)

HoldsIgnoredFolder(fo, d) == \E g \in fo : IsPrefix(d, g) /\ IgnoredFolder(settings, g)

\* deleteEmptyFolders on the root has returned and nobody else wrote meanwhile
PruneCompleted == bulk.pruned /\ bulk.writes = 0

PruneKeepsContent ==
  /\ files = bulk.files0
  /\ \A d \in bulk.folders0 : HasFileBelow(files, d) => d \in folders

\* C16 as stated: after deleteEmptyFolders on the root completes, no
\* non-ignored folder without any file in its subtree remains, no file has
\* been removed, and no folder with a file in its subtree has been removed
C16_NoFilelessFolderRemains ==
  PruneCompleted =>
    /\ \A d \in folders : ~IgnoredFolder(settings, d) => HasFileBelow(files, d)
    /\ PruneKeepsContent

\* C16 amended: after deleteEmptyFolders on the root completes, every
\* non-ignored folder that remains has a file or an ignored folder somewhere
\* in its subtree, no file has been removed, and no folder with a file in its
\* subtree has been removed
C16_NoEmptyFolderRemains ==
  PruneCompleted =>
    /\ \A d \in folders :
         ~IgnoredFolder(settings, d) => HasFileBelow(files, d) \/ HoldsIgnoredFolder(folders, d)
    /\ PruneKeepsContent

\* A folder and its only subfolder, both without files, have been pruned
C16_Witness ==
  /\ PruneCompleted
  /\ {<<"E">>, <<"E", "b">>} \subseteq bulk.folders0 \ folders
  /\ <<"E", "a">> \notin bulk.folders0

\* C17: the pruning never ends with an error when a folder seen empty has
\* received a child before its removal (no other operation having failed)
C17_RaceIsIgnored == bulk.failed = <<>> => ~bulk.error

\* C19: reorganize starts its stages in the order wikilinks, wiki embeds,
\* relative embeds, relative links, collection, pruning, and, unless it was
\* cancelled, each stage starts only when every stage before it has taken
\* its turn on every note
C19_StagesInFixedOrder ==
  bulk.cmd = "reorganize" =>
    /\ Len(bulk.started) <= 6
    /\ bulk.started = SubSeq(<<"wikilinks", "wikiembeds", "embedsRelative", "linksRelative",
                               "collect", "prune">>, 1, Len(bulk.started))
    /\ ~bulk.aborted =>
         \A i \in 1..(Len(bulk.started) - 1) : \A n \in {NoteX, NoteY} :
           <<bulk.started[i], n>> \in bulk.done

\* Reorganize has run all its stages on both notes, uncancelled
C19_Witness ==
  /\ bulk.cmd = "reorganize" /\ ~bulk.running /\ ~bulk.aborted /\ ~bulk.error
  /\ Len(bulk.started) = 6
  /\ bulk.pruned
  /\ Cardinality(bulk.done) = 10

\* C20: once cancellation is signalled, no step of the running bulk command
\* changes a note, an attachment or a folder
C20_NothingModifiedAfterCancel ==
  [][bulk.aborted /\ bulk.running /\ bulk'.writes = bulk.writes
       => files' = files /\ folders' = folders /\ fmt' = fmt]_vars

\* C21: when the collect-all command has ended without being cancelled, it
\* has reported its count and every note but one whose collection failed has
\* had its turn.
C21_FailureAbortsOnlyOneNote ==
  (bulk.cmd = "collectAll" /\ ~bulk.running /\ ~bulk.aborted) =>
    /\ bulk.reported
    /\ \A n \in {NoteX, NoteY} : <<n>> = bulk.failed \/ <<"collect", n>> \in bulk.done

\* C23: check-consistency leaves every folder, every file but its report and
\* every note's text as they were when it started, and a check that was
\* cancelled while it ran has written no report.
C23_CheckIsReadOnly ==
  bulk.cmd = "checkConsistency" =>
    /\ folders = bulk.folders0
    /\ fmt = bulk.fmt0
    /\ DOMAIN files \ {ReportFile} = DOMAIN bulk.files0
    /\ \A p \in DOMAIN bulk.files0 : files[p] = bulk.files0[p]
    /\ bulk.aborted => ~Exists(files, ReportFile)

-----------------------------------------------------------------------------
(* SpecAuto: automatic collection on metadataCache "changed"               *)

InitAuto ==
  \E S \in SUBSET {I1, T1, H1} :
  \E LX \in SUBSET (S \cap {I1, T1}) : \E LY \in SUBSET (S \cap {I1}) :
  \E del \in BOOLEAN : \E cust \in BOOLEAN : \E auto \in BOOLEAN :
    /\ files = [p \in S \cup {NoteX, NoteY} |->
                  IF p = NoteX THEN File("", Links(Pick(Linkable, LX)), "idx")
                  ELSE IF p = NoteY THEN File("", Links(Pick(Linkable, LY)), "idy")
                  ELSE File(ContentOf(p), <<>>, "")]
    /\ folders = FoldersOf(files) \cup {<<"in">>}
    /\ settings = [DefaultSettings EXCEPT !.deleteExistFilesWhenMoveNote = del,
                                          !.customized = cust,
                                          !.autoCollectAttachments = auto]
    /\ fhPrune = settings.deleteEmptyFolders
    /\ renameMap = <<>>
    /\ pc = "idle"
    /\ cursor = <<>>
    /\ updateAllLinks = "host"
    /\ faults = 0
    /\ renames = 0
    /\ cascade = NoCascade
    /\ coll = NoCollect
    /\ lastMove = NoMove
    /\ broken0 = BrokenLinks(files)
    /\ AuxIdle

\* The notes whose content differs between two trees
EditedNotes(before, after) == {n \in Notes(after) : n \notin DOMAIN before \/ after[n] # before[n]}

\* The unique names have reached the bound kept on them
AtCap == \E p \in DOMAIN files : Len(p.suf) >= 2 \/ (p.suf # <<>> /\ p.suf[1] >= MaxCopies)

\* The user edits a note while nothing is pending: the host fires "changed"
\* for it (lines 589-591)
UserEdit ==
  \E n \in Notes(files) :
    /\ coll.changed = {}
    /\ coll.count < MaxCollects
    /\ coll' = [coll EXCEPT !.changed = {n}, !.count = @ + 1, !.moved = <<>>, !.seen = {}]
    /\ UNCHANGED <<vaultVars, cfgVars, renameVars, lastMove, broken0, auxVars>>

\* handleMetadataCacheChanged (lines 884-895) for one pending notification:
\* collectAttachments (lines 706-731); every note the round edits gets a new
\* notification
AutoRound ==
  \E n \in coll.changed :
  ~AtCap /\
  \E r \in {IF settings.autoCollectAttachments
            THEN collectNote(files, folders, n, settings, fhPrune)
            ELSE [files |-> files, folders |-> folders]} :
    /\ files' = r.files
    /\ folders' = r.folders
    /\ coll' = [coll EXCEPT !.changed = (@ \ {n}) \cup EditedNotes(files, r.files),
                            !.note = n,
                            !.moved = IF DOMAIN r.files = DOMAIN files THEN <<>> ELSE <<n>>,
                            !.seen = @ \cup {<<files, folders, coll.changed>>}]
    /\ UNCHANGED <<cfgVars, renameVars, lastMove, broken0, auxVars>>

NextAuto == UserEdit \/ AutoRound

SpecAuto == InitAuto /\ [][NextAuto]_vars /\ WF_vars(AutoRound)

\* C29: the chain of rounds an edit starts never comes back to a vault and a
\* set of pending notifications it has already started a round from. A round
\* is a function of the vault and of the pending note, so a chain that comes
\* back repeats the same rounds for ever: it never reaches a round that moves
\* nothing and edits no note.
C29_AutoCollectTerminates ==
  coll.changed # {} => <<files, folders, coll.changed>> \notin coll.seen

-----------------------------------------------------------------------------
(* SpecPrune: the bulk commands on a vault that holds no note               *)

\* The vault after onload: attachments at most, and folders that hold no file
InitPrune ==
  \E S \in SUBSET {I1, I2} : \E leaves \in SUBSET EmptyLeaves :
  \E ign \in {{}, {<<"E", "a">>}} : \E prune \in BOOLEAN :
    /\ files = [p \in S |-> File(ContentOf(p), <<>>, "")]
    /\ folders = FoldersOf(files) \cup {Root} \cup UNION {Ancestors(d) : d \in leaves}
    /\ settings = [DefaultSettings EXCEPT !.deleteEmptyFolders = prune, !.ignoreFolders = ign]
    /\ fhPrune = settings.deleteEmptyFolders
    /\ renameMap = <<>>
    /\ pc = "idle"
    /\ cursor = <<>>
    /\ updateAllLinks = "host"
    /\ faults = 0
    /\ renames = 0
    /\ cascade = NoCascade
    /\ coll = NoCollect
    /\ lastMove = NoMove
    /\ broken0 = {}
    /\ AuxIdle

\* With no note in the vault the loops over the notes have no turn
NextPrune ==
  \/ StartCommand
  \/ StageReturn
  \/ PruneObserve
  \/ PruneRemove
  \/ PruneReturn
  \/ Abort
  \/ ConcurrentWrite

SpecPrune == InitPrune /\ [][NextPrune]_vars

\* C32: pruning never removes the root of the tree, not even when the tree
\* holds no file at all.
C32_RootNeverRemoved == Root \in folders

-----------------------------------------------------------------------------
(* SpecRepeat: collection for a note that links one attachment twice        *)

\* The link lists of N/x.md: in/img.png twice, with another link between
RepeatedLinks(S) == {<<I1, I1>>} \cup (IF T1 \in S THEN {<<I1, T1, I1>>} ELSE {})

InitRepeat ==
  \E S \in SUBSET {T1, H1} : \E LX \in RepeatedLinks(S) : \E LY \in SUBSET {I1} :
  \E del \in BOOLEAN : \E cust \in BOOLEAN : \E prune \in BOOLEAN :
    /\ files = [p \in S \cup {I1, NoteX, NoteY} |->
                  IF p = NoteX THEN File("", Links(LX), "idx")
                  ELSE IF p = NoteY THEN File("", Links(Pick(Linkable, LY)), "idy")
                  ELSE File(ContentOf(p), <<>>, "")]
    /\ folders = FoldersOf(files)
    /\ settings = [DefaultSettings EXCEPT !.deleteEmptyFolders = prune,
                                          !.deleteExistFilesWhenMoveNote = del,
                                          !.customized = cust]
    /\ fhPrune = settings.deleteEmptyFolders
    /\ renameMap = <<>>
    /\ pc = "idle"
    /\ cursor = <<>>
    /\ updateAllLinks = "host"
    /\ faults = 0
    /\ renames = 0
    /\ cascade = NoCascade
    /\ coll = NoCollect
    /\ lastMove = NoMove
    /\ broken0 = BrokenLinks(files)
    /\ AuxIdle

NextRepeat == CollectBegin \/ CollectLink \/ CollectEnd

SpecRepeat == InitRepeat /\ [][NextRepeat]_vars

\* C36: a turn of the loop for a link whose attachment already has a record
\* in the result moves, copies, renames and deletes nothing and adds no
\* record: the tree and both lists of the result stay as they are.
C36_RecordedLinkResolvedOnce ==
  [][(coll.pc = "loop" /\ coll.links # <<>> /\ Recorded(coll.moved, Head(coll.links).target)) =>
       /\ files' = files
       /\ folders' = folders
       /\ coll'.moved = coll.moved
       /\ coll'.renamed = coll.renamed]_vars

\* C36 witness: the loop has gone through both occurrences of in/img.png;
\* the first left a record and the file in its place (the file is shared and
\* was copied), so the second found the file and its record
C36_Witness ==
  /\ coll.pc = "loop"
  /\ coll.links = <<>>
  /\ coll.note = NoteX
  /\ coll.count = 1
  /\ Recorded(coll.moved, I1)
  /\ Exists(files, I1)

====
